---- MODULE Spec2Model ----
(***************************************************************************)
(* The restore-verify-report pipeline of restorable-cli: the verify        *)
(* command (verifyCmd.RunE), the Postgres restorer, the baseline store,    *)
(* the checkers and the report builder, as a state machine.                *)
(***************************************************************************)
EXTENDS Integers, Sequences, FiniteSets, TLC

(***************************************************************************)
(* Bounds of the model.                                                    *)
(***************************************************************************)
\* number of invocations of `restorable verify` in one behaviour
MaxRuns == 2
\* tables a backup artifact may hold (named 1..MaxTables in namespace public)
MaxTables == 2
\* time units one restore tool may run (1..MaxElapsed)
MaxElapsed == 2
\* length of a check-result list handed to the report builder
MaxChecks == 3
\* calls made on one restorer when it is driven call by call
MaxCalls == 4

(***************************************************************************)
(* Data model (schema.Schema, schema.Metrics, verify.CheckResult).         *)
(***************************************************************************)
\* a nil pointer / a nil error
Nil == [kind |-> "nil"]

LevelCritical == "critical"
LevelWarning == "warning"
LevelInfo == "info"
Levels == {LevelCritical, LevelWarning, LevelInfo}

TableIds == 1..MaxTables

\* the row counts a table may have, and the sizes a database may have
RowValues == {0, 1}
DBSizes == {8192}

\* The content of a backup artifact, and of the database restored from it:
\* the row count of each of its tables.
Databases == UNION {[S -> RowValues] : S \in SUBSET TableIds}

\* the database of a container that nothing was restored into
EmptyDB == << >>

RECURSIVE SortedSeq(_)
\* the elements of a finite set of integers in ascending order (ORDER BY)
SortedSeq(S) ==
    IF S = {} THEN <<>>
    ELSE LET m == CHOOSE x \in S : \A y \in S : x <= y
         IN <<m>> \o SortedSeq(S \ {m})

\* table n of namespace public; identifiers are sequences of characters
Table(n) == [Schema |-> <<"public">>, Name |-> <<n>>]

\* fmt.Sprintf("%s.%s", t.Schema, t.Name): the two identifiers joined by a dot
TableKey(t) == t.Schema \o <<".">> \o t.Name

Range(s) == {s[i] : i \in 1..Len(s)}

RECURSIVE SumRows(_)
SumRows(tms) ==
    IF tms = <<>> THEN 0 ELSE Head(tms).RowCount + SumRows(Tail(tms))

(***************************************************************************)
(* The checkers.                                                           *)
(***************************************************************************)
\* the baseline tables whose key is not among the current tables, in order
MissingTables(current, baseline) ==
    SelectSeq([i \in 1..Len(baseline.Tables) |-> TableKey(baseline.Tables[i])],
              LAMBDA k : k \notin {TableKey(t) : t \in Range(current.Tables)})

\* TablesExistChecker.Check failing when there is no baseline to compare with
TablesExistCheckNeedsBaseline(current, baseline, metrics) ==
    IF baseline = Nil
    THEN [Name |-> "tables_exist", Level |-> LevelCritical, Passed |-> FALSE,
          Message |-> <<"No baseline schema available">>]
    ELSE [Name |-> "tables_exist", Level |-> LevelCritical, Passed |-> TRUE,
          Message |-> <<"All baseline tables present", Len(baseline.Tables)>>]

TablesExistCheck(current, baseline, metrics) ==
    IF baseline = Nil
    THEN [Name |-> "tables_exist", Level |-> LevelCritical, Passed |-> TRUE,
          Message |-> <<"No baseline schema available (first verification run)">>]
    ELSE LET missingTables == MissingTables(current, baseline)
         IN IF Len(missingTables) > 0
            THEN [Name |-> "tables_exist", Level |-> LevelCritical, Passed |-> FALSE,
                  Message |-> <<"Missing tables", Len(missingTables), missingTables>>]
            ELSE [Name |-> "tables_exist", Level |-> LevelCritical, Passed |-> TRUE,
                  Message |-> <<"All expected tables present", Len(baseline.Tables)>>]

\* table_count failing on any difference from the baseline count
TableCountCheckStrict(current, baseline, metrics) ==
    IF baseline = Nil
    THEN [Name |-> "table_count", Level |-> LevelWarning, Passed |-> TRUE,
          Message |-> <<"Found tables (no baseline for comparison)", Len(current.Tables)>>]
    ELSE LET diff == Len(current.Tables) - Len(baseline.Tables)
         IN [Name |-> "table_count", Level |-> LevelWarning, Passed |-> (diff = 0),
             Message |-> <<"Table count differs", Len(current.Tables), diff>>]

TableCountCheck(current, baseline, metrics) ==
    IF baseline = Nil
    THEN [Name |-> "table_count", Level |-> LevelWarning, Passed |-> TRUE,
          Message |-> <<"Found tables (no baseline for comparison)", Len(current.Tables)>>]
    ELSE LET diff == Len(current.Tables) - Len(baseline.Tables)
         IN IF diff = 0
            THEN [Name |-> "table_count", Level |-> LevelWarning, Passed |-> TRUE,
                  Message |-> <<"Table count matches baseline", Len(current.Tables)>>]
            ELSE IF diff > 0
            THEN [Name |-> "table_count", Level |-> LevelWarning, Passed |-> TRUE,
                  Message |-> <<"Table count increased", Len(current.Tables), diff>>]
            ELSE [Name |-> "table_count", Level |-> LevelWarning, Passed |-> FALSE,
                  Message |-> <<"Table count decreased", Len(current.Tables), diff>>]

NewTablesCheck(current, baseline, metrics) ==
    IF baseline = Nil
    THEN [Name |-> "new_tables", Level |-> LevelInfo, Passed |-> TRUE,
          Message |-> <<"No baseline schema available">>]
    ELSE LET newTables ==
                 SelectSeq([i \in 1..Len(current.Tables) |-> TableKey(current.Tables[i])],
                           LAMBDA k : k \notin {TableKey(t) : t \in Range(baseline.Tables)})
         IN IF Len(newTables) > 0
            THEN [Name |-> "new_tables", Level |-> LevelInfo, Passed |-> TRUE,
                  Message |-> <<"Found new tables", Len(newTables), newTables>>]
            ELSE [Name |-> "new_tables", Level |-> LevelInfo, Passed |-> TRUE,
                  Message |-> <<"No new tables detected">>]

RowCountCheck(warnThreshold, current, baseline, metrics) ==
    IF baseline = Nil \/ metrics = Nil
    THEN [Name |-> "row_counts", Level |-> LevelWarning, Passed |-> TRUE,
          Message |-> <<"No baseline available for row count comparison">>]
    ELSE [Name |-> "row_counts", Level |-> LevelWarning, Passed |-> TRUE,
          Message |-> <<"Row count check skipped (baseline metrics not available)",
                        SumRows(metrics.TableMetrics)>>]

NonEmptyTablesCheck(minimumTables, current, baseline, metrics) ==
    IF metrics = Nil
    THEN [Name |-> "non_empty_tables", Level |-> LevelWarning, Passed |-> FALSE,
          Message |-> <<"No metrics available to check table data">>]
    ELSE LET tablesWithData ==
                 Cardinality({i \in 1..Len(metrics.TableMetrics) :
                                 metrics.TableMetrics[i].RowCount > 0})
         IN IF tablesWithData >= minimumTables
            THEN [Name |-> "non_empty_tables", Level |-> LevelWarning, Passed |-> TRUE,
                  Message |-> <<"tables have data", tablesWithData,
                                Len(metrics.TableMetrics)>>]
            ELSE [Name |-> "non_empty_tables", Level |-> LevelWarning, Passed |-> FALSE,
                  Message |-> <<"Only tables have data", tablesWithData, minimumTables>>]

TotalRowCountCheck(minimumRows, current, baseline, metrics) ==
    IF metrics = Nil
    THEN [Name |-> "total_row_count", Level |-> LevelWarning, Passed |-> FALSE,
          Message |-> <<"No metrics available">>]
    ELSE LET totalRows == SumRows(metrics.TableMetrics)
         IN IF totalRows >= minimumRows
            THEN [Name |-> "total_row_count", Level |-> LevelWarning, Passed |-> TRUE,
                  Message |-> <<"Total row count", totalRows>>]
            ELSE [Name |-> "total_row_count", Level |-> LevelWarning, Passed |-> FALSE,
                  Message |-> <<"Total row count is below minimum", totalRows, minimumRows>>]

\* durations (time.Duration) are counted in ticks of half a second
TicksPerSecond == 2

\* int(d.Seconds()): the whole seconds of a duration, the fraction dropped
WholeSeconds(d) == d \div TicksPerSecond

RestoreDurationCheck(maxSeconds, current, baseline, metrics) ==
    IF metrics = Nil
    THEN [Name |-> "restore_duration", Level |-> LevelInfo, Passed |-> TRUE,
          Message |-> <<"No metrics available">>]
    ELSE LET durationSecs == WholeSeconds(metrics.RestoreDuration)
         IN IF maxSeconds > 0 /\ durationSecs > maxSeconds
            THEN [Name |-> "restore_duration", Level |-> LevelWarning, Passed |-> FALSE,
                  Message |-> <<"Restore took seconds (maximum)", durationSecs, maxSeconds>>]
            ELSE [Name |-> "restore_duration", Level |-> LevelInfo, Passed |-> TRUE,
                  Message |-> <<"Restore completed in seconds", durationSecs>>]

\* buildCheckers followed by verify.RunChecks: the results in checker order
RunChecks(cfg, current, baseline, metrics) ==
    <<TablesExistCheck(current, baseline, metrics),
      TableCountCheck(current, baseline, metrics),
      NewTablesCheck(current, baseline, metrics)>>
    \o (IF cfg.RowCountsEnabled
        THEN <<RowCountCheck(cfg.WarnThresholdPercent, current, baseline, metrics),
               NonEmptyTablesCheck(1, current, baseline, metrics),
               TotalRowCountCheck(1, current, baseline, metrics)>>
        ELSE <<>>)
    \o <<RestoreDurationCheck(0, current, baseline, metrics)>>

\* the number of failed results of one level (one counter of CountFailures)
FailedOfLevel(results, level) ==
    Cardinality({i \in 1..Len(results) :
                    ~results[i].Passed /\ results[i].Level = level})

CountFailures(results) ==
    [critical |-> FailedOfLevel(results, LevelCritical),
     warning |-> FailedOfLevel(results, LevelWarning),
     info |-> FailedOfLevel(results, LevelInfo)]

HasCriticalFailure(results) ==
    \E i \in 1..Len(results) : results[i].Level = LevelCritical /\ ~results[i].Passed

(***************************************************************************)
(* The report builder and the signer.                                      *)
(***************************************************************************)
ReportVersion == "1"

\* time.Duration.String(): the duration rendered as text
DurationString(d) == <<d, "s">>

ZeroSummary ==
    [Success |-> FALSE, TotalChecks |-> 0, PassedChecks |-> 0, FailedChecks |-> 0,
     CriticalFailures |-> 0, WarningFailures |-> 0, RestoreDuration |-> <<>>]

NewReportBuilder ==
    [Version |-> ReportVersion, ID |-> 0, Timestamp |-> 0, ProjectID |-> "",
     MachineID |-> "", BackupSource |-> "",
     Database |-> [Type |-> "", MajorVersion |-> 0, SizeBytes |-> 0],
     Schema |-> Nil, Metrics |-> Nil, Checks |-> <<>>, Summary |-> ZeroSummary,
     Signature |-> <<>>]

\* the readings of the clock, in seconds
Clock == {1, 2}

\* the readings the clock can give once the reports in files are written: time
\* does not run backwards, and two runs can fall in the same second
ClockAfter(files) == {t \in Clock : \A n \in DOMAIN files : n[1] <= t}

\* NewReportBuilder called when the clock reads now (Timestamp: time.Now().UTC())
NewReportBuilderAt(now) == [NewReportBuilder EXCEPT !.Timestamp = now]

WithID(b, id) == [b EXCEPT !.ID = id]
WithProject(b, id) == [b EXCEPT !.ProjectID = id]
WithMachineID(b, machineID) == [b EXCEPT !.MachineID = machineID]
WithBackupSource(b, source) == [b EXCEPT !.BackupSource = source]
WithDatabase(b, dbType, majorVersion) ==
    [b EXCEPT !.Database = [Type |-> dbType, MajorVersion |-> majorVersion, SizeBytes |-> 0]]
WithSchema(b, s) == [b EXCEPT !.Schema = s]
\* WithMetrics leaving the database size alone
WithMetricsKeepsSize(b, m) == [b EXCEPT !.Metrics = m]

WithMetrics(b, m) ==
    [b EXCEPT !.Metrics = m,
              !.Database.SizeBytes = IF m # Nil THEN m.DBSizeBytes ELSE @]
WithChecks(b, checks) == [b EXCEPT !.Checks = checks]

RECURSIVE SummaryLoop(_, _)
\* the loop of computeSummary over the checks, acc holding its four counters
SummaryLoop(checks, acc) ==
    IF checks = <<>> THEN acc
    ELSE LET c == Head(checks)
             next ==
                 IF c.Passed THEN [acc EXCEPT !.passed = @ + 1]
                 ELSE IF c.Level = LevelCritical
                      THEN [acc EXCEPT !.failed = @ + 1, !.critical = @ + 1]
                 ELSE IF c.Level = LevelWarning
                      THEN [acc EXCEPT !.failed = @ + 1, !.warning = @ + 1]
                 ELSE [acc EXCEPT !.failed = @ + 1]
         IN SummaryLoop(Tail(checks), next)

\* computeSummary letting any failed check decide success
computeSummaryAnyFailure(b) ==
    LET total == Len(b.Checks)
        n == SummaryLoop(b.Checks,
                         [passed |-> 0, failed |-> 0, critical |-> 0, warning |-> 0])
    IN [b EXCEPT !.Summary =
            [Success |-> (n.failed = 0),
             TotalChecks |-> total,
             PassedChecks |-> n.passed,
             FailedChecks |-> n.failed,
             CriticalFailures |-> n.critical,
             WarningFailures |-> n.warning,
             RestoreDuration |-> IF b.Metrics # Nil
                                 THEN DurationString(b.Metrics.RestoreDuration)
                                 ELSE <<>>]]

computeSummary(b) ==
    LET total == Len(b.Checks)
        n == SummaryLoop(b.Checks,
                         [passed |-> 0, failed |-> 0, critical |-> 0, warning |-> 0])
    IN [b EXCEPT !.Summary =
            [Success |-> (n.critical = 0),
             TotalChecks |-> total,
             PassedChecks |-> n.passed,
             FailedChecks |-> n.failed,
             CriticalFailures |-> n.critical,
             WarningFailures |-> n.warning,
             RestoreDuration |-> IF b.Metrics # Nil
                                 THEN DurationString(b.Metrics.RestoreDuration)
                                 ELSE <<>>]]

Build(b) == computeSummary(b)

\* json.Marshal of a report: its fields in declaration order, the omitempty
\* fields (schema, metrics, size_bytes, signature) left out when empty
Marshal(report) ==
    <<report.Version, report.ID, report.ProjectID, report.MachineID, report.BackupSource,
      report.Timestamp,
      <<report.Database.Type, report.Database.MajorVersion>>
          \o (IF report.Database.SizeBytes # 0 THEN <<report.Database.SizeBytes>> ELSE <<>>),
      IF report.Schema # Nil THEN <<report.Schema>> ELSE <<>>,
      IF report.Metrics # Nil THEN <<report.Metrics>> ELSE <<>>,
      report.Checks, report.Summary,
      IF report.Signature # <<>> THEN <<report.Signature>> ELSE <<>> >>

\* the name WriteJSON gives the file of a report: its timestamp and its id
ReportFileName(report) == <<report.Timestamp, report.ID>>

\* What the model keeps of a report file: the fields the properties of the
\* report directory read.
StoredReport(report) ==
    [ID |-> report.ID, ProjectID |-> report.ProjectID,
     Success |-> report.Summary.Success,
     Signed |-> report.Signature # <<>>]

\* WriteJSON naming the file from the timestamp alone
WriteJSONNamedByTimestamp(files, report) ==
    [n \in DOMAIN files \cup {<<report.Timestamp, 0>>} |->
        IF n = <<report.Timestamp, 0>> THEN StoredReport(report) ELSE files[n]]

\* the report directory after WriteJSON wrote report
WriteJSON(files, report) ==
    [n \in DOMAIN files \cup {ReportFileName(report)} |->
        IF n = ReportFileName(report) THEN StoredReport(report) ELSE files[n]]

\* json.MarshalIndent: the same document, indented
MarshalIndent(report) == [indent |-> "  ", doc |-> Marshal(report)]

\* json.Unmarshal into a zero Report: a field left out of the document keeps
\* its zero value
Unmarshal(doc) ==
    [Version |-> doc[1], ID |-> doc[2], ProjectID |-> doc[3], MachineID |-> doc[4],
     BackupSource |-> doc[5],
     Timestamp |-> doc[6],
     Database |-> [Type |-> doc[7][1], MajorVersion |-> doc[7][2],
                   SizeBytes |-> IF Len(doc[7]) = 3 THEN doc[7][3] ELSE 0],
     Schema |-> IF Len(doc[8]) = 1 THEN doc[8][1] ELSE Nil,
     Metrics |-> IF Len(doc[9]) = 1 THEN doc[9][1] ELSE Nil,
     Checks |-> doc[10], Summary |-> doc[11],
     Signature |-> IF Len(doc[12]) = 1 THEN doc[12][1] ELSE <<>>]

\* LoadReport: the report parsed from the content of a report file
LoadReport(file) == Unmarshal(file.doc)

\* Ed25519 key pairs: the private keys, and the public key of each
PrivateKeys == {"key1", "key2"}
PublicKey(privateKey) == <<"public", privateKey>>
PublicKeys == {PublicKey(k) : k \in PrivateKeys}

\* ed25519.Sign is deterministic in the key and the message
Ed25519Sign(privateKey, data) == <<"ed25519", privateKey, data>>

\* ed25519.Verify accepting any message signed with the key
Ed25519VerifyKeyOnly(publicKey, data, signature) ==
    \E k \in PrivateKeys : PublicKey(k) = publicKey /\ signature[2] = k

\* ed25519.Verify: signature was made over data with the key of publicKey
Ed25519Verify(publicKey, data, signature) ==
    \E k \in PrivateKeys : PublicKey(k) = publicKey /\ signature = Ed25519Sign(k, data)

Base64Encode(bytes) == <<"base64", bytes>>

Base64Decode(text) ==
    IF Len(text) = 2 /\ text[1] = "base64"
    THEN [bytes |-> text[2], err |-> Nil]
    ELSE [bytes |-> <<>>, err |-> [kind |-> "error", msg |-> "failed to decode signature"]]

\* report.Sign: clear the signature, sign the serialized report, store it
Sign(report, privateKey) ==
    LET cleared == [report EXCEPT !.Signature = <<>>]
    IN [cleared EXCEPT
           !.Signature = Base64Encode(Ed25519Sign(privateKey, Marshal(cleared)))]

\* Verify serializing the report with its signature still in place
VerifyKeepsSignature(report, publicKey) ==
    IF report.Signature = <<>>
    THEN [ok |-> FALSE, err |-> [kind |-> "error", msg |-> "report has no signature"]]
    ELSE LET dec == Base64Decode(report.Signature)
         IN IF dec.err # Nil THEN [ok |-> FALSE, err |-> dec.err]
            ELSE [ok |-> Ed25519Verify(publicKey, Marshal(report), dec.bytes),
                  err |-> Nil]

\* report.Verify: the signature checked over a copy without the signature
Verify(report, publicKey) ==
    IF report.Signature = <<>>
    THEN [ok |-> FALSE, err |-> [kind |-> "error", msg |-> "report has no signature"]]
    ELSE LET dec == Base64Decode(report.Signature)
         IN IF dec.err # Nil THEN [ok |-> FALSE, err |-> dec.err]
            ELSE LET reportCopy == [report EXCEPT !.Signature = <<>>]
                 IN [ok |-> Ed25519Verify(publicKey, Marshal(reportCopy), dec.bytes),
                     err |-> Nil]

(***************************************************************************)
(* The Postgres restorer (PostgresRestorer).                               *)
(***************************************************************************)
Container == [kind |-> "container"]
DBConn == [kind |-> "db"]
Err(msg) == [kind |-> "error", msg |-> msg]

\* NewPostgresRestorer: no container, no connection, zero duration
NewPostgresRestorer == [container |-> Nil, db |-> Nil, restoreDuration |-> 0]

\* what the tools of one Restore call did (the locals of Restore)
NoLog ==
    [pgRan |-> FALSE, pgExit |-> 0, pgOut |-> "", pgElapsed |-> 0,
     psqlRan |-> FALSE, psqlExit |-> 0, psqlOut |-> "", psqlElapsed |-> 0]

\* the environment failures one Restore call may meet, in the order of the code
RestoreFailPoints ==
    {"none", "password", "run", "tmpfile", "iocopy", "copy_to_container",
     "pg_exec", "psql_exec", "connstr", "sqlopen"}

ExitCodes == {0, 1, 2}

\* what the environment does during one Restore call
RestoreInputs ==
    [fail : RestoreFailPoints,
     pgExit : ExitCodes, pgOut : {"pg_out_a", "pg_out_b"}, pgElapsed : 1..MaxElapsed,
     psqlExit : ExitCodes, psqlOut : {"psql_out_a", "psql_out_b"},
     psqlElapsed : 1..MaxElapsed]

\* time.Since(start) read at time now
Since(start, now) == now - start

\* the tail of Restore: the connection string, then sql.Open
RestoreConnect(r, in, log) ==
    IF in.fail = "connstr"
    THEN [r |-> r, err |-> Err("failed to get connection string"), log |-> log]
    ELSE IF in.fail = "sqlopen"
    THEN [r |-> [r EXCEPT !.db = Nil], err |-> Err("failed to connect to database"),
          log |-> log]
    ELSE [r |-> [r EXCEPT !.db = DBConn], err |-> Nil, log |-> log]

\* RestoreFallback declaring the run fatal without trying psql
RestoreFallbackSkipsPsql(r, in, restoreStart, afterPg, log) ==
    [r |-> r,
     err |-> [kind |-> "error", msg |-> "all restore methods failed",
              pgExit |-> in.pgExit, pgOut |-> in.pgOut,
              psqlExit |-> in.pgExit, psqlOut |-> in.pgOut],
     log |-> log]

\* RestoreFallback timing the psql attempt alone
RestoreFallbackTimesPsqlOnly(r, in, restoreStart, afterPg, log) ==
    IF in.fail = "psql_exec"
    THEN [r |-> r, err |-> Err("failed to execute psql"),
          log |-> [log EXCEPT !.psqlRan = TRUE]]
    ELSE LET afterPsql == afterPg + in.psqlElapsed
             log2 == [log EXCEPT !.psqlRan = TRUE, !.psqlExit = in.psqlExit,
                                 !.psqlOut = in.psqlOut, !.psqlElapsed = in.psqlElapsed]
         IN IF in.psqlExit # 0
            THEN [r |-> r,
                  err |-> [kind |-> "error", msg |-> "all restore methods failed",
                           pgExit |-> in.pgExit, pgOut |-> in.pgOut,
                           psqlExit |-> in.psqlExit, psqlOut |-> in.psqlOut],
                  log |-> log2]
            ELSE RestoreConnect([r EXCEPT !.restoreDuration = Since(afterPg, afterPsql)],
                                in, log2)

\* the second attempt of Restore, psql, after pg_restore exited non-zero
RestoreFallback(r, in, restoreStart, afterPg, log) ==
    IF in.fail = "psql_exec"
    THEN [r |-> r, err |-> Err("failed to execute psql"),
          log |-> [log EXCEPT !.psqlRan = TRUE]]
    ELSE LET afterPsql == afterPg + in.psqlElapsed
             log2 == [log EXCEPT !.psqlRan = TRUE, !.psqlExit = in.psqlExit,
                                 !.psqlOut = in.psqlOut, !.psqlElapsed = in.psqlElapsed]
         IN IF in.psqlExit # 0
            THEN [r |-> r,
                  err |-> [kind |-> "error", msg |-> "all restore methods failed",
                           pgExit |-> in.pgExit, pgOut |-> in.pgOut,
                           psqlExit |-> in.psqlExit, psqlOut |-> in.psqlOut],
                  log |-> log2]
            ELSE RestoreConnect([r EXCEPT !.restoreDuration = Since(restoreStart, afterPsql)],
                                in, log2)

\* pg_restore could not be executed, and Restore goes on to psql
RestorePgExecErrorTriesPsql(r, in) ==
    RestoreFallback(r, in, 0, 0, [NoLog EXCEPT !.pgRan = TRUE])

\* Restore when executing pg_restore itself returns an error
RestorePgExecError(r, in) ==
    [r |-> r, err |-> Err("failed to execute pg_restore"),
     log |-> [NoLog EXCEPT !.pgRan = TRUE]]

\* PostgresRestorer.Restore, one call: the restorer after it, the error it
\* returns and what its tools did
Restore(r, in) ==
    IF in.fail = "password"
    THEN [r |-> r, err |-> Err("database password environment variable not set"),
          log |-> NoLog]
    ELSE IF in.fail = "run"
    THEN [r |-> r, err |-> Err("could not start postgres container"), log |-> NoLog]
    ELSE LET r1 == [r EXCEPT !.container = Container]
         IN IF in.fail = "tmpfile"
            THEN [r |-> r1, err |-> Err("failed to create temporary backup file"),
                  log |-> NoLog]
            ELSE IF in.fail = "iocopy"
            THEN [r |-> r1, err |-> Err("failed to write backup to temporary file"),
                  log |-> NoLog]
            ELSE IF in.fail = "copy_to_container"
            THEN [r |-> r1, err |-> Err("failed to copy backup file into container"),
                  log |-> NoLog]
            ELSE IF in.fail = "pg_exec"
            THEN RestorePgExecError(r1, in)
            ELSE LET restoreStart == 0
                     afterPg == restoreStart + in.pgElapsed
                     log1 == [NoLog EXCEPT !.pgRan = TRUE, !.pgExit = in.pgExit,
                                           !.pgOut = in.pgOut,
                                           !.pgElapsed = in.pgElapsed]
                 IN IF in.pgExit = 0
                    THEN RestoreConnect(
                             [r1 EXCEPT !.restoreDuration = Since(restoreStart, afterPg)],
                             in, log1)
                    ELSE RestoreFallback(r1, in, restoreStart, afterPg, log1)

\* the per-table row counts of a restored database, ordered by name
TrueRowCounts(db) ==
    LET names == SortedSeq(DOMAIN db)
    IN [i \in 1..Len(names) |->
           [Schema |-> "public", Name |-> names[i], RowCount |-> db[names[i]]]]

\* what pg_stat_user_tables may answer right after a bulk load: nothing, or
\* for each table its live count or a stale zero
StatsViews(db) ==
    LET names == SortedSeq(DOMAIN db)
    IN {<<>>} \cup
       {[i \in 1..Len(names) |->
            [Schema |-> "public", Name |-> names[i], RowCount |-> f[names[i]]]] :
          f \in {g \in [DOMAIN db -> RowValues] : \A n \in DOMAIN db : g[n] \in {0, db[n]}}}

ExtractSchema(r, db, queryOK) ==
    IF r.db = Nil
    THEN [schema |-> Nil,
          err |-> Err("database connection not established; call Restore first")]
    ELSE IF ~queryOK
    THEN [schema |-> Nil, err |-> Err("failed to query tables")]
    ELSE LET names == SortedSeq(DOMAIN db)
         IN [schema |-> [Version |-> "1",
                         Tables |-> [i \in 1..Len(names) |-> Table(names[i])]],
             err |-> Nil]

\* allZeroRowCounts trusting whatever the statistics view answered
allZeroRowCountsTrustsStats(tms) == FALSE

allZeroRowCounts(tms) == ~\E i \in 1..Len(tms) : tms[i].RowCount > 0

getAccurateRowCounts(db) == TrueRowCounts(db)

MetricsFailPoints == {"none", "size", "stats", "count", "rows_err"}

\* ExtractMetrics: size is the database size, stats the statistics view's answer
ExtractMetrics(r, db, size, stats, fail) ==
    IF r.db = Nil
    THEN [metrics |-> Nil,
          err |-> Err("database connection not established; call Restore first")]
    ELSE IF fail = "size"
    THEN [metrics |-> Nil, err |-> Err("failed to get database size")]
    ELSE IF fail = "stats"
    THEN [metrics |-> Nil, err |-> Err("failed to query table stats")]
    ELSE LET useFallback == Len(stats) = 0 \/ allZeroRowCounts(stats)
         IN IF useFallback /\ fail = "count"
            THEN [metrics |-> Nil, err |-> Err("failed to count rows")]
            ELSE [metrics |->
                      [RestoreDuration |-> r.restoreDuration,
                       DBSizeBytes |-> size,
                       TableMetrics |-> IF useFallback THEN getAccurateRowCounts(db)
                                        ELSE stats],
                  err |-> IF fail = "rows_err" THEN Err("rows iteration") ELSE Nil]

\* Cleanup leaving the connection field set
CleanupKeepsConnection(r, terminateOK) ==
    IF r.container # Nil
    THEN IF ~terminateOK
         THEN [r |-> r, err |-> Err("failed to terminate container"),
               terminateCalled |-> TRUE]
         ELSE [r |-> [r EXCEPT !.container = Nil], err |-> Nil, terminateCalled |-> TRUE]
    ELSE [r |-> r, err |-> Nil, terminateCalled |-> FALSE]

\* Cleanup leaving the container field set after Terminate
CleanupKeepsContainer(r, terminateOK) ==
    LET r1 == IF r.db # Nil THEN [r EXCEPT !.db = Nil] ELSE r
    IN IF r1.container # Nil
       THEN IF ~terminateOK
            THEN [r |-> r1, err |-> Err("failed to terminate container"),
                  terminateCalled |-> TRUE]
            ELSE [r |-> r1, err |-> Nil, terminateCalled |-> TRUE]
       ELSE [r |-> r1, err |-> Nil, terminateCalled |-> FALSE]

\* Cleanup: terminateOK says whether container.Terminate succeeds if called
Cleanup(r, terminateOK) ==
    LET r1 == IF r.db # Nil THEN [r EXCEPT !.db = Nil] ELSE r
    IN IF r1.container # Nil
       THEN IF ~terminateOK
            THEN [r |-> r1, err |-> Err("failed to terminate container"),
                  terminateCalled |-> TRUE]
            ELSE [r |-> [r1 EXCEPT !.container = Nil], err |-> Nil,
                  terminateCalled |-> TRUE]
       ELSE [r |-> r1, err |-> Nil, terminateCalled |-> FALSE]

(***************************************************************************)
(* The baseline store (schema.BaselineStore): one file per project.        *)
(***************************************************************************)
\* Save: the project's file after a successful write
BaselineSave(file, schema) == schema

\* Load: nil, nil when the file does not exist
BaselineLoad(file, readOK) ==
    IF file = Nil THEN [schema |-> Nil, err |-> Nil]
    ELSE IF ~readOK THEN [schema |-> Nil, err |-> Err("failed to read schema file")]
    ELSE [schema |-> file, err |-> Nil]

BaselineExists(file) == file # Nil

\* step 11 saving after every run
UpdateBaselineEveryRun(file, loaded, schema) == BaselineSave(file, schema)

\* the baseline file after step 11 of RunE, given what Load had returned
UpdateBaseline(file, loaded, schema) ==
    IF loaded = Nil THEN BaselineSave(file, schema) ELSE file

(***************************************************************************)
(* State.                                                                  *)
(***************************************************************************)
VARIABLES
    cfg,             \* ~/.restorable/config.yaml as parsed
    baselineFile,    \* ~/.restorable/schemas/<project>.json: Nil or a schema
    reportFiles,     \* the report directory: file name -> report
    runs,            \* invocations of the verify command so far
    pc,              \* where the current invocation stands
    restored,        \* the content of the database in the container
    r,               \* the restorer of the current invocation
    container,       \* the ephemeral container: none, running, terminated
    deferred,        \* defer restorer.Cleanup has been executed
    extractedSchema, \* locals of RunE
    metrics,
    baseline,
    checkResults,
    rpt,
    err,             \* what RunE returns
    exitCode,        \* the exit code of the process, -1 while it runs
    cleanupCalls,    \* calls of Cleanup on r
    terminations,    \* successful container.Terminate calls
    calls,           \* calls made on r when it is driven call by call
    ret,             \* the last such call: operation, result, state before
    phase,           \* of r's life: new, restored, restore_failed, cleaned
    cleanOK,         \* a Cleanup call on r has returned nil
    saved            \* baselineStore.Save has returned nil in this invocation

vars ==
    <<cfg, baselineFile, reportFiles, runs, pc, restored, r, container, deferred,
      extractedSchema, metrics, baseline, checkResults, rpt, err,
      exitCode, cleanupCalls, terminations, calls, ret, phase, cleanOK, saved>>

diskVars == <<cfg, baselineFile, reportFiles>>
restorerVars == <<r, container, restored, cleanupCalls, terminations>>
localVars == <<extractedSchema, metrics, baseline, checkResults, rpt>>
apiVars == <<calls, ret, phase, cleanOK>>

Configs ==
    [ProjectID : {"proj"}, MachineID : {"machine"}, DBType : {"postgres", "mysql"},
     MajorVersion : {16}, SchemaEnabled : {TRUE}, RowCountsEnabled : BOOLEAN,
     WarnThresholdPercent : {20}, SigningKey : {"key1"}]

\* the exit code main gives the process for what Execute returned
MainExitCode(e) == IF e # Nil THEN 3 ELSE 0

\* fmt.Errorf("<msg>: %w", cause)
Wrap(msg, cause) == [kind |-> "error", msg |-> msg, cause |-> cause]

Init ==
    /\ cfg \in Configs
    /\ baselineFile = Nil
    /\ reportFiles = << >>
    /\ runs = 0
    /\ pc = "idle"
    /\ restored = EmptyDB
    /\ r = NewPostgresRestorer
    /\ container = "none"
    /\ deferred = FALSE
    /\ extractedSchema = Nil
    /\ metrics = Nil
    /\ baseline = Nil
    /\ checkResults = << >>
    /\ rpt = Nil
    /\ err = Nil
    /\ exitCode = -1
    /\ cleanupCalls = 0
    /\ terminations = 0
    /\ calls = 0
    /\ ret = Nil
    /\ phase = "new"
    /\ cleanOK = FALSE
    /\ saved = FALSE

(***************************************************************************)
(* verifyCmd.RunE, step by step, and main.                                 *)
(***************************************************************************)
\* a new process: restorable verify
StartRun ==
    /\ pc \in {"idle", "exited"}
    /\ runs < MaxRuns
    /\ runs' = runs + 1
    /\ pc' = "config"
    /\ restored' = EmptyDB
    /\ r' = NewPostgresRestorer
    /\ container' = "none"
    /\ deferred' = FALSE
    /\ extractedSchema' = Nil
    /\ metrics' = Nil
    /\ baseline' = Nil
    /\ checkResults' = << >>
    /\ rpt' = Nil
    /\ err' = Nil
    /\ exitCode' = -1
    /\ cleanupCalls' = 0
    /\ terminations' = 0
    /\ saved' = FALSE
    /\ UNCHANGED <<diskVars, apiVars>>

\* 1. config.Load
LoadConfig ==
    /\ pc = "config"
    /\ \E ok \in BOOLEAN :
          IF ok THEN pc' = "acquire" /\ err' = err
          ELSE pc' = "return" /\ err' = Err("failed to load configuration")
    /\ UNCHANGED <<diskVars, runs, restorerVars, deferred, localVars, exitCode, apiVars, saved>>

\* 2. backup.NewSourceFromConfig and source.Acquire
Acquire ==
    /\ pc = "acquire"
    /\ \E outcome \in {"source_err", "acquire_err", "ok"} :
          IF outcome = "ok"
          THEN pc' = "decrypt" /\ err' = err
          ELSE /\ pc' = "return"
               /\ err' = IF outcome = "source_err"
                         THEN Err("failed to create backup source")
                         ELSE Err("failed to acquire backup")
    /\ UNCHANGED <<diskVars, runs, restorerVars, deferred, localVars, exitCode, apiVars, saved>>

\* 3. decryption, when cfg.Encryption is set
Decrypt ==
    /\ pc = "decrypt"
    /\ \E outcome \in {"not_encrypted", "key_err", "decrypt_err", "ok"} :
          IF outcome \in {"not_encrypted", "ok"} THEN pc' = "restorer" /\ err' = err
          ELSE /\ pc' = "return"
               /\ err' = IF outcome = "key_err"
                         THEN Err("failed to create decryptor")
                         ELSE Err("decryption failed")
    /\ UNCHANGED <<diskVars, runs, restorerVars, deferred, localVars, exitCode, apiVars, saved>>

\* 4. the restorer for the configured database type
SelectRestorer ==
    /\ pc = "restorer"
    /\ IF cfg.DBType = "postgres"
       THEN pc' = "restore" /\ err' = err /\ r' = NewPostgresRestorer
       ELSE pc' = "return" /\ err' = Err("unsupported database type") /\ r' = r
    /\ UNCHANGED <<diskVars, runs, restored, container, cleanupCalls, terminations,
                   deferred, localVars, exitCode, apiVars, saved>>

\* restorer.Restore, and on success defer restorer.Cleanup
CallRestore ==
    /\ pc = "restore"
    /\ \E in \in RestoreInputs :
          LET res == Restore(r, in)
          IN /\ r' = res.r
             /\ container' = IF res.r.container # Nil THEN "running" ELSE container
             /\ IF res.err # Nil
                THEN /\ err' = Wrap("restore process failed", res.err)
                     /\ pc' = "return"
                     /\ deferred' = deferred
                     /\ restored' = restored
                ELSE /\ err' = err
                     /\ pc' = "extract_schema"
                     /\ deferred' = TRUE
                     /\ \E db \in Databases : restored' = db
    /\ UNCHANGED <<diskVars, runs, cleanupCalls, terminations, localVars, exitCode,
                   apiVars, saved>>

\* 5. restorer.ExtractSchema
CallExtractSchema ==
    /\ pc = "extract_schema"
    /\ \E queryOK \in BOOLEAN :
          LET res == ExtractSchema(r, restored, queryOK)
          IN IF res.err # Nil
             THEN /\ err' = Wrap("failed to extract schema", res.err)
                  /\ pc' = "return"
                  /\ extractedSchema' = extractedSchema
             ELSE /\ err' = err
                  /\ pc' = "extract_metrics"
                  /\ extractedSchema' = res.schema
    /\ UNCHANGED <<diskVars, runs, restorerVars, deferred, metrics, baseline,
                   checkResults, rpt, exitCode, apiVars, saved>>

\* ExtractMetrics leaving a report of what was extracted when it fails
CallExtractMetricsWritingReport ==
    /\ pc = "extract_metrics"
    /\ \E size \in DBSizes, stats \in StatsViews(restored), fail \in MetricsFailPoints :
          LET res == ExtractMetrics(r, restored, size, stats, fail)
          IN IF res.err # Nil
             THEN /\ err' = Wrap("failed to extract metrics", res.err)
                  /\ pc' = "return"
                  /\ metrics' = res.metrics
                  /\ reportFiles' =
                        WriteJSON(reportFiles,
                                  Build(WithSchema(WithID(NewReportBuilderAt(1), runs),
                                                   extractedSchema)))
             ELSE /\ err' = err
                  /\ pc' = "load_baseline"
                  /\ metrics' = res.metrics
                  /\ reportFiles' = reportFiles
    /\ UNCHANGED <<cfg, baselineFile, runs, restorerVars, deferred, extractedSchema,
                   baseline, checkResults, rpt, exitCode, apiVars, saved>>

\* restorer.ExtractMetrics
CallExtractMetrics ==
    /\ pc = "extract_metrics"
    /\ \E size \in DBSizes, stats \in StatsViews(restored), fail \in MetricsFailPoints :
          LET res == ExtractMetrics(r, restored, size, stats, fail)
          IN IF res.err # Nil
             THEN /\ err' = Wrap("failed to extract metrics", res.err)
                  /\ pc' = "return"
                  /\ metrics' = res.metrics
             ELSE /\ err' = err
                  /\ pc' = "load_baseline"
                  /\ metrics' = res.metrics
    /\ UNCHANGED <<diskVars, runs, restorerVars, deferred, extractedSchema,
                   baseline, checkResults, rpt, exitCode, apiVars, saved>>

\* 6. schema.NewBaselineStore and baselineStore.Load
LoadBaseline ==
    /\ pc = "load_baseline"
    /\ \E storeOK \in BOOLEAN, readOK \in BOOLEAN :
          IF ~storeOK
          THEN /\ err' = Err("failed to create baseline store")
               /\ pc' = "return"
               /\ baseline' = baseline
          ELSE LET res == BaselineLoad(baselineFile, readOK)
               IN IF res.err # Nil
                  THEN /\ err' = Wrap("failed to load baseline schema", res.err)
                       /\ pc' = "return"
                       /\ baseline' = baseline
                  ELSE /\ err' = err
                       /\ pc' = "checks"
                       /\ baseline' = res.schema
    /\ UNCHANGED <<diskVars, runs, restorerVars, deferred, extractedSchema,
                   metrics, checkResults, rpt, exitCode, apiVars, saved>>

\* 7. buildCheckers and verify.RunChecks
DoRunChecks ==
    /\ pc = "checks"
    /\ checkResults' = RunChecks(cfg, extractedSchema, baseline, metrics)
    /\ pc' = "build"
    /\ UNCHANGED <<diskVars, runs, restorerVars, deferred, extractedSchema,
                   metrics, baseline, rpt, err, exitCode, apiVars, saved>>

\* the builder chain with Build called before the checks are added
BuildReportBeforeChecks ==
    /\ pc = "build"
    /\ \E now \in ClockAfter(reportFiles) :
          rpt' = WithChecks(Build(WithMetrics(WithSchema(WithDatabase(WithBackupSource(
                    WithMachineID(WithProject(WithID(NewReportBuilderAt(now), runs),
                                              cfg.ProjectID),
                                  cfg.MachineID),
                    "source"), cfg.DBType, cfg.MajorVersion), extractedSchema), metrics)),
                    checkResults)
    /\ pc' = "sign"
    /\ UNCHANGED <<diskVars, runs, restorerVars, deferred, extractedSchema,
                   metrics, baseline, checkResults, err, exitCode, apiVars, saved>>

\* 8. the report builder chain of RunE
BuildReport ==
    /\ pc = "build"
    /\ \E now \in ClockAfter(reportFiles) :
          rpt' = Build(WithChecks(WithMetrics(WithSchema(WithDatabase(WithBackupSource(
                    WithMachineID(WithProject(WithID(NewReportBuilderAt(now), runs),
                                              cfg.ProjectID),
                                  cfg.MachineID),
                    "source"), cfg.DBType, cfg.MajorVersion), extractedSchema), metrics),
                    checkResults))
    /\ pc' = "sign"
    /\ UNCHANGED <<diskVars, runs, restorerVars, deferred, extractedSchema,
                   metrics, baseline, checkResults, err, exitCode, apiVars, saved>>

\* 9. report.LoadPrivateKey and report.Sign
SignReport ==
    /\ pc = "sign"
    /\ \E outcome \in {"key_err", "sign_err", "ok"} :
          IF outcome = "ok"
          THEN /\ rpt' = Sign(rpt, cfg.SigningKey)
               /\ pc' = "write"
               /\ err' = err
          ELSE /\ rpt' = IF outcome = "sign_err" THEN [rpt EXCEPT !.Signature = <<>>]
                         ELSE rpt
               /\ pc' = "return"
               /\ err' = IF outcome = "key_err" THEN Err("failed to load signing key")
                         ELSE Err("failed to sign report")
    /\ UNCHANGED <<diskVars, runs, restorerVars, deferred, extractedSchema,
                   metrics, baseline, checkResults, exitCode, apiVars, saved>>

\* step 10 with the baseline saved before the report is known to be written
WriteReportSavingFirst ==
    /\ pc = "write"
    /\ baselineFile' = UpdateBaseline(baselineFile, baseline, extractedSchema)
    /\ \E ok \in BOOLEAN :
          IF ok
          THEN /\ reportFiles' = WriteJSON(reportFiles, rpt)
               /\ pc' = "save_baseline"
               /\ err' = err
          ELSE /\ reportFiles' = reportFiles
               /\ pc' = "return"
               /\ err' = Err("failed to write report")
    /\ UNCHANGED <<cfg, runs, restorerVars, deferred, localVars, exitCode, apiVars,
                   saved>>

\* 10. report.WriteJSON
WriteReport ==
    /\ pc = "write"
    /\ \E ok \in BOOLEAN :
          IF ok
          THEN /\ reportFiles' = WriteJSON(reportFiles, rpt)
               /\ pc' = "save_baseline"
               /\ err' = err
          ELSE /\ reportFiles' = reportFiles
               /\ pc' = "return"
               /\ err' = Err("failed to write report")
    /\ UNCHANGED <<cfg, baselineFile, runs, restorerVars, deferred, localVars,
                   exitCode, apiVars, saved>>

\* 11. the baseline of a first run, then the final summary of RunE
SaveBaselineAndFinish ==
    /\ pc = "save_baseline"
    /\ \E saveOK \in BOOLEAN :
          IF baseline = Nil /\ ~saveOK
          THEN /\ baselineFile' = baselineFile
               /\ saved' = saved
               /\ err' = Err("failed to save baseline schema")
          ELSE /\ baselineFile' = UpdateBaseline(baselineFile, baseline, extractedSchema)
               /\ saved' = (baseline = Nil)
               /\ err' = IF CountFailures(checkResults).critical > 0
                         THEN Err("verification failed with critical failure(s)")
                         ELSE Nil
    /\ pc' = "return"
    /\ UNCHANGED <<cfg, reportFiles, runs, restorerVars, deferred, localVars,
                   exitCode, apiVars>>

\* RunE returns: its deferred calls run
RunDeferred ==
    /\ pc = "return"
    /\ IF deferred
       THEN \E terminateOK \in BOOLEAN :
               LET res == Cleanup(r, terminateOK)
               IN /\ r' = res.r
                  /\ cleanupCalls' = cleanupCalls + 1
                  /\ terminations' = IF res.terminateCalled /\ res.err = Nil
                                     THEN terminations + 1 ELSE terminations
                  /\ container' = IF res.terminateCalled /\ res.err = Nil
                                  THEN "terminated" ELSE container
       ELSE UNCHANGED <<r, cleanupCalls, terminations, container>>
    /\ pc' = "main"
    /\ UNCHANGED <<diskVars, runs, restored, deferred, localVars, err, exitCode, apiVars, saved>>

\* main: the exit code for what cmd.Execute returned
MainExit ==
    /\ pc = "main"
    /\ exitCode' = MainExitCode(err)
    /\ pc' = "exited"
    /\ UNCHANGED <<diskVars, runs, restorerVars, deferred, localVars, err,
                   apiVars, saved>>

Next ==
    \/ StartRun
    \/ LoadConfig
    \/ Acquire
    \/ Decrypt
    \/ SelectRestorer
    \/ CallRestore
    \/ CallExtractSchema
    \/ CallExtractMetrics
    \/ LoadBaseline
    \/ DoRunChecks
    \/ BuildReport
    \/ SignReport
    \/ WriteReport
    \/ SaveBaselineAndFinish
    \/ RunDeferred
    \/ MainExit

Spec == Init /\ [][Next]_vars

(***************************************************************************)
(* The verify run under an operator interrupt.  RunE works on              *)
(* context.Background() and the program installs no signal handler, so an  *)
(* interrupt ends the process where it stands: no deferred call runs.      *)
(***************************************************************************)
\* the exit status of a process ended by SIGINT
InterruptExitCode == 130

Interrupt ==
    /\ pc \notin {"idle", "exited"}
    /\ pc' = "exited"
    /\ exitCode' = InterruptExitCode
    /\ UNCHANGED <<diskVars, runs, restorerVars, deferred, localVars, err, apiVars,
                   saved>>

NextInterrupt ==
    \/ Next
    \/ Interrupt

SpecInterrupt == Init /\ [][NextInterrupt]_vars

(***************************************************************************)
(* The restorer driven call by call: one Restore, then extraction and      *)
(* Cleanup calls in any order and number, as the Restorer interface        *)
(* allows.  Cleanup ends the use of a restorer: Restore is not called      *)
(* after it.                                                               *)
(***************************************************************************)
DefaultConfig ==
    [ProjectID |-> "proj", MachineID |-> "machine", DBType |-> "postgres",
     MajorVersion |-> 16, SchemaEnabled |-> TRUE, RowCountsEnabled |-> TRUE,
     WarnThresholdPercent |-> 20, SigningKey |-> "key1"]

InitRestorer ==
    /\ cfg = DefaultConfig
    /\ baselineFile = Nil
    /\ reportFiles = << >>
    /\ runs = 0
    /\ pc = "api"
    /\ restored = EmptyDB
    /\ r = NewPostgresRestorer
    /\ container = "none"
    /\ deferred = FALSE
    /\ extractedSchema = Nil
    /\ metrics = Nil
    /\ baseline = Nil
    /\ checkResults = << >>
    /\ rpt = Nil
    /\ err = Nil
    /\ exitCode = -1
    /\ cleanupCalls = 0
    /\ terminations = 0
    /\ calls = 0
    /\ ret = Nil
    /\ phase = "new"
    /\ cleanOK = FALSE
    /\ saved = FALSE

pipelineVars ==
    <<diskVars, runs, pc, deferred, localVars, err, exitCode, saved>>

ApiRestore ==
    /\ pc = "api"
    /\ calls < MaxCalls
    /\ phase = "new"
    /\ \E in \in RestoreInputs, db \in Databases :
          LET res == Restore(r, in)
          IN /\ r' = res.r
             /\ container' = IF res.r.container # Nil THEN "running" ELSE container
             /\ restored' = IF res.err = Nil THEN db ELSE restored
             /\ phase' = IF res.err = Nil THEN "restored" ELSE "restore_failed"
             /\ ret' = [op |-> "Restore", err |-> res.err, value |-> Nil,
                        log |-> res.log, phaseBefore |-> phase,
                        cleanOKBefore |-> cleanOK, terminateCalled |-> FALSE]
    /\ calls' = calls + 1
    /\ UNCHANGED <<pipelineVars, cleanupCalls, terminations, cleanOK>>

ApiExtractSchema ==
    /\ pc = "api"
    /\ calls < MaxCalls
    /\ \E queryOK \in BOOLEAN :
          LET res == ExtractSchema(r, restored, queryOK)
          IN ret' = [op |-> "ExtractSchema", err |-> res.err, value |-> res.schema,
                     log |-> NoLog, phaseBefore |-> phase,
                     cleanOKBefore |-> cleanOK, terminateCalled |-> FALSE]
    /\ calls' = calls + 1
    /\ UNCHANGED <<pipelineVars, restorerVars, phase, cleanOK>>

ApiExtractMetrics ==
    /\ pc = "api"
    /\ calls < MaxCalls
    /\ \E size \in DBSizes, fail \in MetricsFailPoints,
          stats \in StatsViews(restored) :
          LET res == ExtractMetrics(r, restored, size, stats, fail)
          IN ret' = [op |-> "ExtractMetrics", err |-> res.err, value |-> res.metrics,
                     log |-> NoLog, phaseBefore |-> phase,
                     cleanOKBefore |-> cleanOK, terminateCalled |-> FALSE,
                     stats |-> stats]
    /\ calls' = calls + 1
    /\ UNCHANGED <<pipelineVars, restorerVars, phase, cleanOK>>

ApiCleanup ==
    /\ pc = "api"
    /\ calls < MaxCalls
    /\ \E terminateOK \in BOOLEAN :
          LET res == Cleanup(r, terminateOK)
          IN /\ r' = res.r
             /\ terminations' = IF res.terminateCalled /\ res.err = Nil
                                THEN terminations + 1 ELSE terminations
             /\ container' = IF res.terminateCalled /\ res.err = Nil
                             THEN "terminated" ELSE container
             /\ cleanOK' = (cleanOK \/ res.err = Nil)
             /\ ret' = [op |-> "Cleanup", err |-> res.err, value |-> Nil,
                        log |-> NoLog, phaseBefore |-> phase,
                        cleanOKBefore |-> cleanOK,
                        terminateCalled |-> res.terminateCalled]
    /\ cleanupCalls' = cleanupCalls + 1
    /\ phase' = "cleaned"
    /\ calls' = calls + 1
    /\ UNCHANGED <<pipelineVars, restored>>

NextRestorer ==
    \/ ApiRestore
    \/ ApiExtractSchema
    \/ ApiExtractMetrics
    \/ ApiCleanup

SpecRestorer == InitRestorer /\ [][NextRestorer]_vars

(***************************************************************************)
(* The report builder on an arbitrary list of check results.               *)
(***************************************************************************)
CheckResultValues ==
    [Name : {"check"}, Level : Levels, Passed : BOOLEAN, Message : {<< >>}]

CheckLists == UNION {[1..n -> CheckResultValues] : n \in 0..MaxChecks}

InitSummary ==
    /\ cfg = DefaultConfig
    /\ baselineFile = Nil
    /\ reportFiles = << >>
    /\ runs = 0
    /\ pc = "summary"
    /\ restored = EmptyDB
    /\ r = NewPostgresRestorer
    /\ container = "none"
    /\ deferred = FALSE
    /\ extractedSchema = Nil
    /\ metrics = Nil
    /\ baseline = Nil
    /\ checkResults \in CheckLists
    /\ rpt = Nil
    /\ err = Nil
    /\ exitCode = -1
    /\ cleanupCalls = 0
    /\ terminations = 0
    /\ calls = 0
    /\ ret = Nil
    /\ phase = "new"
    /\ cleanOK = FALSE
    /\ saved = FALSE

\* NewReportBuilder().WithChecks(checkResults).Build()
BuildSummary ==
    /\ pc = "summary"
    /\ rpt' = Build(WithChecks(NewReportBuilder, checkResults))
    /\ pc' = "summary_built"
    /\ UNCHANGED <<diskVars, runs, restorerVars, deferred, extractedSchema, metrics,
                   baseline, checkResults, err, exitCode, apiVars, saved>>

NextSummary == BuildSummary

SpecSummary == InitSummary /\ [][NextSummary]_vars

(***************************************************************************)
(* The checkers on arbitrary snapshots: a current schema, a baseline or    *)
(* none, metrics or none.  Identifiers are what Postgres allows in quotes, *)
(* dots included.                                                          *)
(***************************************************************************)
\* the identifiers a namespace or a table may have
Identifiers == {<<"a">>, <<"a", ".", "a">>}

\* the tables of the catalogue, in the order of ORDER BY table_schema, table_name
CheckTableList ==
    <<[Schema |-> <<"a">>, Name |-> <<"a">>],
      [Schema |-> <<"a">>, Name |-> <<"a", ".", "a">>],
      [Schema |-> <<"a", ".", "a">>, Name |-> <<"a">>],
      [Schema |-> <<"a", ".", "a">>, Name |-> <<"a", ".", "a">>]>>

\* the schemas of at most MaxTables tables of the catalogue
CheckSchemas ==
    {[Version |-> "1",
      Tables |-> [i \in 1..Len(SortedSeq(S)) |-> CheckTableList[SortedSeq(S)[i]]]] :
        S \in {T \in SUBSET (1..Len(CheckTableList)) : Cardinality(T) <= MaxTables}}

\* metrics of a restored database: none, or the rows of its tables
CheckMetrics ==
    {Nil} \cup
    [RestoreDuration : {1}, DBSizeBytes : DBSizes,
     TableMetrics : {<< >>} \cup
                    {<<[Schema |-> "public", Name |-> 1, RowCount |-> n]>> :
                        n \in RowValues}]

\* the total row count of the run the baseline was saved in
BaselineRowTotals == 0..2

\* the verification section of the configuration: which check groups are on
CheckConfigs ==
    {[DefaultConfig EXCEPT !.SchemaEnabled = se, !.RowCountsEnabled = rc] :
        se \in BOOLEAN, rc \in BOOLEAN}

InitCheckers ==
    /\ cfg \in CheckConfigs
    /\ baselineFile = Nil
    /\ reportFiles = << >>
    /\ runs = 0
    /\ pc = "chk_new"
    /\ restored = EmptyDB
    /\ r = NewPostgresRestorer
    /\ container = "none"
    /\ deferred = FALSE
    /\ extractedSchema \in CheckSchemas
    /\ metrics \in CheckMetrics
    /\ baseline \in CheckSchemas \cup {Nil}
    /\ checkResults = << >>
    /\ rpt = Nil
    /\ err = Nil
    /\ exitCode = -1
    /\ cleanupCalls = 0
    /\ terminations = 0
    /\ calls = 0
    /\ ret \in [baselineRows : BaselineRowTotals]
    /\ phase = "new"
    /\ cleanOK = FALSE
    /\ saved = FALSE

\* buildCheckers(cfg) and verify.RunChecks on the snapshots
ApplyCheckers ==
    /\ pc = "chk_new"
    /\ checkResults' = RunChecks(cfg, extractedSchema, baseline, metrics)
    /\ pc' = "chk_done"
    /\ UNCHANGED <<diskVars, runs, restorerVars, deferred, extractedSchema, metrics,
                   baseline, rpt, err, exitCode, apiVars, saved>>

\* the maxima a RestoreDurationChecker may be built with, and the durations
\* of a restore, in ticks
MaxDurationSeconds == -1..MaxElapsed
CheckDurations == 0..(TicksPerSecond * MaxElapsed + 1)

\* NewRestoreDurationChecker(maxSeconds).Check on metrics of any duration
ApplyRestoreDuration ==
    /\ pc = "chk_new"
    /\ \E maxSeconds \in MaxDurationSeconds, d \in CheckDurations :
          LET m == IF metrics = Nil THEN Nil ELSE [metrics EXCEPT !.RestoreDuration = d]
          IN /\ metrics' = m
             /\ ret' = [baselineRows |-> ret.baselineRows, maxSeconds |-> maxSeconds,
                        result |-> RestoreDurationCheck(maxSeconds, extractedSchema,
                                                        baseline, m)]
    /\ pc' = "chk_duration"
    /\ UNCHANGED <<diskVars, runs, restorerVars, deferred, extractedSchema,
                   baseline, checkResults, rpt, err, exitCode, calls, phase, cleanOK,
                   saved>>

NextCheckers ==
    \/ ApplyCheckers
    \/ ApplyRestoreDuration

SpecCheckers == InitCheckers /\ [][NextCheckers]_vars

(***************************************************************************)
(* Signing: a built report is signed, possibly written and loaded back,    *)
(* possibly signed again or changed in one field, and verified.            *)
(***************************************************************************)
\* the schemas and metrics a report may carry
SignSchemas ==
    {[Version |-> "1",
      Tables |-> [i \in 1..Len(SortedSeq(S)) |-> Table(SortedSeq(S)[i])]] :
        S \in SUBSET TableIds}

SignMetrics ==
    [RestoreDuration : {1}, DBSizeBytes : {0} \cup DBSizes,
     TableMetrics : {<< >>, <<[Schema |-> "public", Name |-> 1, RowCount |-> 1]>>}]

SignChecks == {c \in CheckLists : Len(c) <= 1}

\* the reports the builder chain of RunE can hand to Sign
SignReports ==
    {Build(WithChecks(WithMetrics(WithSchema(WithDatabase(WithBackupSource(
         WithMachineID(WithProject(WithID(NewReportBuilder, 1), "proj"), "machine"),
         "source"), "postgres", 16), sc), m), c)) :
       sc \in SignSchemas \cup {Nil}, m \in SignMetrics \cup {Nil}, c \in SignChecks}

\* report with one of its fields, not the signature, given another value
Tampers(report) ==
    ( {[report EXCEPT !.Version = v] : v \in {"1", "2"}}
      \cup {[report EXCEPT !.ID = v] : v \in {1, 2}}
      \cup {[report EXCEPT !.Timestamp = v] : v \in {0} \cup Clock}
      \cup {[report EXCEPT !.ProjectID = v] : v \in {"proj", "other"}}
      \cup {[report EXCEPT !.MachineID = v] : v \in {"machine", "other"}}
      \cup {[report EXCEPT !.BackupSource = v] : v \in {"source", "other"}}
      \cup {[report EXCEPT !.Database.Type = v] : v \in {"postgres", "mysql"}}
      \cup {[report EXCEPT !.Database.MajorVersion = v] : v \in {16, 17}}
      \cup {[report EXCEPT !.Database.SizeBytes = v] : v \in {0} \cup DBSizes}
      \cup {[report EXCEPT !.Schema = v] : v \in SignSchemas \cup {Nil}}
      \cup {[report EXCEPT !.Metrics = v] : v \in SignMetrics \cup {Nil}}
      \cup {[report EXCEPT !.Checks = v] : v \in SignChecks}
      \cup {[report EXCEPT !.Summary.Success = v] : v \in BOOLEAN}
      \cup {[report EXCEPT !.Summary.TotalChecks = v] : v \in 0..1}
      \cup {[report EXCEPT !.Summary.PassedChecks = v] : v \in 0..1}
      \cup {[report EXCEPT !.Summary.FailedChecks = v] : v \in 0..1}
      \cup {[report EXCEPT !.Summary.CriticalFailures = v] : v \in 0..1}
      \cup {[report EXCEPT !.Summary.WarningFailures = v] : v \in 0..1}
      \cup {[report EXCEPT !.Summary.RestoreDuration = v] :
               v \in {<< >>, DurationString(1), DurationString(2)}} )
    \ {report}

InitSign ==
    /\ cfg = DefaultConfig
    /\ baselineFile = Nil
    /\ reportFiles = << >>
    /\ runs = 0
    /\ pc = "sig_new"
    /\ restored = EmptyDB
    /\ r = NewPostgresRestorer
    /\ container = "none"
    /\ deferred = FALSE
    /\ extractedSchema = Nil
    /\ metrics = Nil
    /\ baseline = Nil
    /\ checkResults = << >>
    /\ rpt \in SignReports
    /\ err = Nil
    /\ exitCode = -1
    /\ cleanupCalls = 0
    /\ terminations = 0
    /\ calls = 0
    /\ ret = Nil
    /\ phase = "new"
    /\ cleanOK = FALSE
    /\ saved = FALSE

signFrame ==
    <<cfg, baselineFile, runs, restorerVars, deferred, extractedSchema, metrics,
      baseline, checkResults, err, exitCode, calls, phase, cleanOK, saved>>

\* report.Sign, on a fresh report or again on a signed one
SigSign ==
    /\ pc \in {"sig_new", "sig_signed"}
    /\ \E key \in PrivateKeys :
          /\ rpt' = Sign(rpt, key)
          /\ ret' = [op |-> "Sign", key |-> key, pub |-> Nil, ok |-> TRUE, err |-> Nil,
                     signed |-> Sign(rpt, key), resigned |-> (ret # Nil),
                     loaded |-> (ret # Nil /\ ret.loaded), tampered |-> FALSE]
    /\ pc' = "sig_signed"
    /\ UNCHANGED <<signFrame, reportFiles>>

\* report.WriteJSON of the signed report
SigWrite ==
    /\ pc = "sig_signed"
    /\ reportFiles' = [n \in {ReportFileName(rpt)} |-> MarshalIndent(rpt)]
    /\ pc' = "sig_written"
    /\ UNCHANGED <<signFrame, rpt, ret>>

\* report.LoadReport of the file written
SigLoad ==
    /\ pc = "sig_written"
    /\ \E n \in DOMAIN reportFiles : rpt' = LoadReport(reportFiles[n])
    /\ ret' = [ret EXCEPT !.op = "LoadReport", !.loaded = TRUE]
    /\ pc' = "sig_signed"
    /\ UNCHANGED <<signFrame, reportFiles>>

\* somebody changes one field of the signed report
SigTamper ==
    /\ pc = "sig_signed"
    /\ \E t \in Tampers(rpt) : rpt' = t
    /\ ret' = [ret EXCEPT !.op = "Tamper", !.tampered = TRUE]
    /\ pc' = "sig_tampered"
    /\ UNCHANGED <<signFrame, reportFiles>>

\* report.Verify with some public key
SigVerify ==
    /\ pc \in {"sig_signed", "sig_tampered"}
    /\ \E pub \in PublicKeys :
          LET res == Verify(rpt, pub)
          IN ret' = [ret EXCEPT !.op = "Verify", !.pub = pub, !.ok = res.ok,
                                !.err = res.err]
    /\ UNCHANGED <<signFrame, reportFiles, rpt, pc>>

NextSign ==
    \/ SigSign
    \/ SigWrite
    \/ SigLoad
    \/ SigTamper
    \/ SigVerify

SpecSign == InitSign /\ [][NextSign]_vars

(***************************************************************************)
(* The command `report verify <id>` (reportVerifyCmd.RunE) and main.       *)
(***************************************************************************)
\* the reports a report directory may hold: unsigned, signed with some key,
\* and signed and then changed
DiskReports ==
    LET base == {x \in SignReports : x.Schema = Nil}
    IN base
       \cup {Sign(x, k) : x \in base, k \in PrivateKeys}
       \cup {[Sign(x, k) EXCEPT !.ProjectID = "other"] : x \in base, k \in PrivateKeys}

InitReportVerify ==
    /\ cfg = DefaultConfig
    /\ baselineFile = Nil
    /\ reportFiles \in {[n \in {ReportFileName(x)} |-> MarshalIndent(x)] : x \in DiskReports}
    /\ runs = 0
    /\ pc = "rv_config"
    /\ restored = EmptyDB
    /\ r = NewPostgresRestorer
    /\ container = "none"
    /\ deferred = FALSE
    /\ extractedSchema = Nil
    /\ metrics = Nil
    /\ baseline = Nil
    /\ checkResults = << >>
    /\ rpt = Nil
    /\ err = Nil
    /\ exitCode = -1
    /\ cleanupCalls = 0
    /\ terminations = 0
    /\ calls = 0
    /\ ret = Nil
    /\ phase = "new"
    /\ cleanOK = FALSE
    /\ saved = FALSE

rvFrame ==
    <<diskVars, runs, restorerVars, deferred, extractedSchema, metrics, baseline,
      checkResults, exitCode, calls, phase, cleanOK, saved>>

\* config.Load
RvLoadConfig ==
    /\ pc = "rv_config"
    /\ \E ok \in BOOLEAN :
          IF ok THEN pc' = "rv_find" /\ err' = err
          ELSE pc' = "main" /\ err' = Err("config file not found")
    /\ UNCHANGED <<rvFrame, rpt, ret>>

\* findReport: the report with the given id, loaded from its file
RvFindReport ==
    /\ pc = "rv_find"
    /\ \E outcome \in {"found", "not_found", "list_err"} :
          IF outcome = "found"
          THEN /\ \E n \in DOMAIN reportFiles : rpt' = LoadReport(reportFiles[n])
               /\ pc' = "rv_pubkey" /\ err' = err
          ELSE /\ rpt' = rpt
               /\ pc' = "main"
               /\ err' = IF outcome = "not_found" THEN Err("report not found")
                         ELSE Err("failed to list reports")
    /\ UNCHANGED <<rvFrame, ret>>

\* report.LoadPublicKey of the key file next to the configured private key
RvLoadPublicKey ==
    /\ pc = "rv_pubkey"
    /\ \E ok \in BOOLEAN :
          IF ok THEN pc' = "rv_verify" /\ err' = err
          ELSE pc' = "main" /\ err' = Err("failed to load public key")
    /\ UNCHANGED <<rvFrame, rpt, ret>>

\* report.Verify, then os.Exit(1) on an invalid signature
RvVerify ==
    /\ pc = "rv_verify"
    /\ LET res == Verify(rpt, PublicKey(cfg.SigningKey))
       IN /\ ret' = [op |-> "Verify", ok |-> res.ok, err |-> res.err]
          /\ IF res.err # Nil
             THEN /\ err' = Wrap("signature verification failed", res.err)
                  /\ pc' = "main" /\ exitCode' = exitCode
             ELSE IF res.ok
             THEN err' = Nil /\ pc' = "main" /\ exitCode' = exitCode
             ELSE err' = Nil /\ pc' = "exited" /\ exitCode' = 1
    /\ UNCHANGED <<diskVars, runs, restorerVars, deferred, extractedSchema, metrics,
                   baseline, checkResults, calls, phase, cleanOK, saved, rpt>>

NextReportVerify ==
    \/ RvLoadConfig
    \/ RvFindReport
    \/ RvLoadPublicKey
    \/ RvVerify
    \/ MainExit

SpecReportVerify == InitReportVerify /\ [][NextReportVerify]_vars

(***************************************************************************)
(* The baseline store driven call by call (schema.BaselineStore). Here     *)
(* baselineFile is the whole file system under the home directory, path -> *)
(* content, and saved is, for each project id, what the latest Save that   *)
(* returned nil for that id was given (Nil: no such Save).                 *)
(***************************************************************************)
\* project ids, each as the segments its separators split it in: "a", "./a", "b"
ProjectIDs == {<<"a">>, <<".", "a">>, <<"b">>}

\* the schemas handed to Save
StoreSchemas == {s \in SignSchemas : Len(s.Tables) <= 1}

\* NewBaselineStore: ~/.restorable/schemas
BasePath == <<"home", ".restorable", "schemas">>

RECURSIVE Clean(_)
\* filepath.Clean on a rooted path: a "." segment is dropped, a ".." segment
\* takes the segment before it away
Clean(segs) ==
    IF segs = << >> THEN << >>
    ELSE LET front == Clean(SubSeq(segs, 1, Len(segs) - 1))
             last == segs[Len(segs)]
         IN IF last = "." THEN front
            ELSE IF last = ".."
            THEN (IF front = << >> THEN << >> ELSE SubSeq(front, 1, Len(front) - 1))
            ELSE Append(front, last)

\* filepath.Join(s.basePath, projectID+".json")
SchemaPath(projectID) ==
    Clean(BasePath \o SubSeq(projectID, 1, Len(projectID) - 1)
                   \o <<projectID[Len(projectID)] \o ".json">>)

\* json.MarshalIndent(schema, "", "  ") and json.Unmarshal over Schema's tags
MarshalSchema(schema) == [indent |-> "  ", doc |-> <<schema.Version, schema.Tables>>]

UnmarshalSchema(data) == [Version |-> data.doc[1], Tables |-> data.doc[2]]

\* os.WriteFile
WriteFile(files, path, data) ==
    [p \in DOMAIN files \cup {path} |-> IF p = path THEN data ELSE files[p]]

\* BaselineStore.Save
Save(files, projectID, schema, writeOK) ==
    IF writeOK
    THEN [files |-> WriteFile(files, SchemaPath(projectID), MarshalSchema(schema)),
          err |-> Nil]
    ELSE [files |-> files, err |-> Err("failed to write schema file")]

\* BaselineStore.Load
Load(files, projectID, readOK) ==
    IF SchemaPath(projectID) \notin DOMAIN files
    THEN [schema |-> Nil, err |-> Nil]
    ELSE IF ~readOK
    THEN [schema |-> Nil, err |-> Err("failed to read schema file")]
    ELSE [schema |-> UnmarshalSchema(files[SchemaPath(projectID)]), err |-> Nil]

\* BaselineStore.Exists
Exists(files, projectID) == SchemaPath(projectID) \in DOMAIN files

InitBaseline ==
    /\ cfg = DefaultConfig
    /\ baselineFile = << >>
    /\ reportFiles = << >>
    /\ runs = 0
    /\ pc = "store"
    /\ restored = EmptyDB
    /\ r = NewPostgresRestorer
    /\ container = "none"
    /\ deferred = FALSE
    /\ extractedSchema = Nil
    /\ metrics = Nil
    /\ baseline = Nil
    /\ checkResults = << >>
    /\ rpt = Nil
    /\ err = Nil
    /\ exitCode = -1
    /\ cleanupCalls = 0
    /\ terminations = 0
    /\ calls = 0
    /\ ret = Nil
    /\ phase = "new"
    /\ cleanOK = FALSE
    /\ saved = [id \in ProjectIDs |-> Nil]

storeFrame ==
    <<cfg, reportFiles, runs, pc, restorerVars, deferred, localVars, err, exitCode,
      phase, cleanOK>>

StoreSave ==
    /\ pc = "store"
    /\ calls < MaxCalls
    /\ \E id \in ProjectIDs, schema \in StoreSchemas, writeOK \in BOOLEAN :
          LET res == Save(baselineFile, id, schema, writeOK)
          IN /\ baselineFile' = res.files
             /\ saved' = IF res.err = Nil THEN [saved EXCEPT ![id] = schema] ELSE saved
             /\ ret' = [op |-> "Save", id |-> id, value |-> Nil, err |-> res.err,
                        exists |-> FALSE]
    /\ calls' = calls + 1
    /\ UNCHANGED storeFrame

StoreLoad ==
    /\ pc = "store"
    /\ calls < MaxCalls
    /\ \E id \in ProjectIDs, readOK \in BOOLEAN :
          LET res == Load(baselineFile, id, readOK)
          IN ret' = [op |-> "Load", id |-> id, value |-> res.schema, err |-> res.err,
                     exists |-> FALSE]
    /\ calls' = calls + 1
    /\ UNCHANGED <<storeFrame, baselineFile, saved>>

StoreExists ==
    /\ pc = "store"
    /\ calls < MaxCalls
    /\ \E id \in ProjectIDs :
          ret' = [op |-> "Exists", id |-> id, value |-> Nil, err |-> Nil,
                  exists |-> Exists(baselineFile, id)]
    /\ calls' = calls + 1
    /\ UNCHANGED <<storeFrame, baselineFile, saved>>

NextBaseline ==
    \/ StoreSave
    \/ StoreLoad
    \/ StoreExists

SpecBaseline == InitBaseline /\ [][NextBaseline]_vars

(***************************************************************************)
(* The report builder driven call by call: WithDatabase and WithMetrics    *)
(* once each, in either order, then Build. rpt is the builder's report,    *)
(* metrics what WithMetrics was given, ret the calls made so far.          *)
(***************************************************************************)
\* the arguments of WithDatabase
BuilderDBTypes == {"postgres", "mysql"}
BuilderMajorVersions == {15, 16, 17}

InitBuilder ==
    /\ cfg = DefaultConfig
    /\ baselineFile = Nil
    /\ reportFiles = << >>
    /\ runs = 0
    /\ pc = "bld_new"
    /\ restored = EmptyDB
    /\ r = NewPostgresRestorer
    /\ container = "none"
    /\ deferred = FALSE
    /\ extractedSchema = Nil
    /\ metrics = Nil
    /\ baseline = Nil
    /\ checkResults = << >>
    /\ rpt = NewReportBuilder
    /\ err = Nil
    /\ exitCode = -1
    /\ cleanupCalls = 0
    /\ terminations = 0
    /\ calls = 0
    /\ ret = [order |-> << >>]
    /\ phase = "new"
    /\ cleanOK = FALSE
    /\ saved = FALSE

builderFrame ==
    <<diskVars, runs, restorerVars, deferred, extractedSchema, baseline, checkResults,
      err, exitCode, calls, phase, cleanOK, saved>>

Called(op) == \E i \in 1..Len(ret.order) : ret.order[i] = op

BldWithDatabase ==
    /\ pc = "bld_new"
    /\ ~Called("WithDatabase")
    /\ \E dbType \in BuilderDBTypes, majorVersion \in BuilderMajorVersions :
          rpt' = WithDatabase(rpt, dbType, majorVersion)
    /\ ret' = [order |-> Append(ret.order, "WithDatabase")]
    /\ UNCHANGED <<builderFrame, pc, metrics>>

BldWithMetrics ==
    /\ pc = "bld_new"
    /\ ~Called("WithMetrics")
    /\ \E m \in SignMetrics \cup {Nil} :
          /\ rpt' = WithMetrics(rpt, m)
          /\ metrics' = m
    /\ ret' = [order |-> Append(ret.order, "WithMetrics")]
    /\ UNCHANGED <<builderFrame, pc>>

BldBuild ==
    /\ pc = "bld_new"
    /\ rpt' = Build(rpt)
    /\ pc' = "bld_built"
    /\ UNCHANGED <<builderFrame, metrics, ret>>

NextBuilder ==
    \/ BldWithDatabase
    \/ BldWithMetrics
    \/ BldBuild

SpecBuilder == InitBuilder /\ [][NextBuilder]_vars

(***************************************************************************)
(* Properties.                                                             *)
(***************************************************************************)
ErrMsg(e) == IF e = Nil THEN "" ELSE e.msg

IsAllFailed(e) == ErrMsg(e) = "all restore methods failed"

\* the report of the current invocation is in the report directory, signed
ReportPersistedSigned ==
    /\ rpt # Nil
    /\ ReportFileName(rpt) \in DOMAIN reportFiles
    /\ reportFiles[ReportFileName(rpt)].ID = runs
    /\ reportFiles[ReportFileName(rpt)].Signed
    /\ rpt.Signature # << >>

\* C1: when the process of a verify run has exited and Restore had provisioned
\* the container in that run, Cleanup has run on the restorer.
C1_CleanupOnEveryExit ==
    (pc = "exited" /\ container # "none") => cleanupCalls > 0

\* C2: a Restore call whose pg_restore ran and exited non-zero has executed
\* psql before returning, and the "all restore methods failed" error is
\* returned only when both tools exited non-zero and carries both exit codes
\* and both outputs.
C2_FallbackBeforeFatal ==
    (ret # Nil /\ ret.op = "Restore") =>
        /\ (ret.log.pgRan /\ ret.log.pgExit # 0) => ret.log.psqlRan
        /\ IsAllFailed(ret.err) =>
              /\ ret.log.pgRan /\ ret.log.pgExit # 0
              /\ ret.log.psqlRan /\ ret.log.psqlExit # 0
              /\ ret.err.pgExit = ret.log.pgExit
              /\ ret.err.pgOut = ret.log.pgOut
              /\ ret.err.psqlExit = ret.log.psqlExit
              /\ ret.err.psqlOut = ret.log.psqlOut

\* C2 witness: a Restore call returned the error of both methods failing
C2_Witness ==
    ret # Nil /\ ret.op = "Restore" /\ IsAllFailed(ret.err) /\ ret.log.psqlRan

\* C3 as stated: the duration a successful Restore records is the time of
\* the successful attempt alone.
C3_DurationOfSuccessfulAttemptOnly ==
    (ret # Nil /\ ret.op = "Restore" /\ ret.err = Nil) =>
        r.restoreDuration =
            IF ret.log.psqlRan THEN ret.log.psqlElapsed ELSE ret.log.pgElapsed

\* C3 amended: the duration a successful Restore records runs from the start
\* of the pg_restore attempt to the end of the attempt that succeeded, so after
\* a fallback it is the time of both attempts together.
C3_DurationFromFirstAttempt ==
    (ret # Nil /\ ret.op = "Restore" /\ ret.err = Nil) =>
        r.restoreDuration =
            IF ret.log.psqlRan THEN ret.log.pgElapsed + ret.log.psqlElapsed
            ELSE ret.log.pgElapsed

\* C3 witness: a Restore call succeeded through the psql fallback
C3_Witness ==
    /\ ret # Nil /\ ret.op = "Restore" /\ ret.err = Nil
    /\ ret.log.pgExit # 0 /\ ret.log.psqlRan /\ ret.log.psqlExit = 0

\* C4: ExtractSchema and ExtractMetrics called on a restorer on which no
\* Restore has succeeded, or on which Cleanup has run, return an error and no
\* snapshot.
C4_ExtractNeedsRestore ==
    (ret # Nil /\ ret.op \in {"ExtractSchema", "ExtractMetrics"}
       /\ ret.phaseBefore # "restored") =>
        (ret.err # Nil /\ ret.value = Nil)

\* C4 witness: an extraction was called after Cleanup had run on a restorer
\* whose Restore had succeeded
C4_Witness ==
    /\ ret # Nil /\ ret.op \in {"ExtractSchema", "ExtractMetrics"}
    /\ ret.phaseBefore = "cleaned" /\ terminations = 1

\* C5: a Cleanup call made after a Cleanup call returned nil returns nil and
\* does not call Terminate, and the container is terminated at most once.
C5_CleanupIdempotent ==
    /\ (ret # Nil /\ ret.op = "Cleanup" /\ ret.cleanOKBefore) =>
          (ret.err = Nil /\ ~ret.terminateCalled)
    /\ terminations <= 1

\* C5 witness: Cleanup was called again after it had terminated the container
C5_Witness ==
    /\ ret # Nil /\ ret.op = "Cleanup" /\ ret.cleanOKBefore
    /\ terminations = 1 /\ cleanupCalls >= 2

\* C6: the baseline file changes only in the step after the report of the run
\* was signed and written, and a run that failed at the signing key, at
\* signing or at writing the report returns an error with the baseline file
\* as Load found it.
C6_BaselineOnlyAfterSignedReport ==
    /\ [][baselineFile' # baselineFile =>
             (pc = "save_baseline" /\ ReportPersistedSigned)]_vars
    /\ [](ErrMsg(err) \in {"failed to load signing key", "failed to sign report",
                            "failed to write report"} =>
             (baselineFile = baseline /\ ~saved /\ (pc = "exited" => exitCode # 0)))

\* C6 witness: a first run failed at signing or at writing its report
C6_Witness ==
    /\ pc = "exited" /\ baseline = Nil
    /\ ErrMsg(err) \in {"failed to sign report", "failed to write report"}

C8_BaselineRefreshedAfterCleanRun ==
    (pc = "exited" /\ err = Nil) => baselineFile = extractedSchema

\* C9: the Summary that Build computes from a list of check results counts
\* them all, splits them into passed and failed, counts the failed critical
\* ones, and has success exactly when there is none.
C9_SummaryInvariant ==
    pc = "summary_built" =>
        /\ rpt.Summary.TotalChecks = Len(checkResults)
        /\ rpt.Summary.PassedChecks + rpt.Summary.FailedChecks = rpt.Summary.TotalChecks
        /\ rpt.Summary.CriticalFailures = CountFailures(checkResults).critical
        /\ rpt.Summary.Success <=> (rpt.Summary.CriticalFailures = 0)
        /\ rpt.Summary.Success <=> ~HasCriticalFailure(checkResults)

\* C9 witness: a summary of a list with a failed warning check and no failed
\* critical check
C9_Witness ==
    /\ pc = "summary_built"
    /\ \E i \in 1..Len(checkResults) :
          ~checkResults[i].Passed /\ checkResults[i].Level = LevelWarning
    /\ \E i \in 1..Len(checkResults) :
          checkResults[i].Passed /\ checkResults[i].Level = LevelCritical
    /\ rpt.Summary.Success

\* C10: a run with a failed critical check has its report signed and written
\* and its process exits with code 2.
C10_CriticalFailureExitsWithTwo ==
    (pc = "exited" /\ ErrMsg(err) = "verification failed with critical failure(s)") =>
        (ReportPersistedSigned /\ exitCode = 2)

\* the failure counts of the run's check results, as RunE prints them
RunFailures == CountFailures(checkResults)

\* RunE returned nil after its last step: the run completed
RunCompleted == pc = "exited" /\ err = Nil /\ rpt # Nil /\ Len(checkResults) > 0

\* C11: a run in which a warning-level check failed and no critical check
\* failed completes with its report signed and written, and its process exits
\* with code 1.
C11_WarningsExitWithOne ==
    (RunCompleted /\ RunFailures.warning > 0 /\ RunFailures.critical = 0) =>
        (ReportPersistedSigned /\ exitCode = 1)

\* the error of RunE is the wrapped error msg of Restore
IsRestoreError(e, msg) ==
    /\ ErrMsg(e) = "restore process failed"
    /\ ErrMsg(e.cause) = msg

\* C12: a run whose Restore could not start the container exits with code 4.
C12_ProvisioningFailureExitsWithFour ==
    (pc = "exited" /\ IsRestoreError(err, "could not start postgres container")) =>
        exitCode = 4

\* Verify was the last call, made with the public key of the signing key
VerifiedWithMatchingKey ==
    /\ pc \in {"sig_signed", "sig_tampered"}
    /\ ret # Nil /\ ret.op = "Verify"
    /\ ret.pub = PublicKey(ret.key)

\* C13: Verify with the public key of the signing key returns true, without
\* error, on a signed report nobody changed: in memory, after WriteJSON and
\* LoadReport, and after the report was signed again.
C13_SignedReportVerifies ==
    (VerifiedWithMatchingKey /\ ~ret.tampered) => (ret.ok /\ ret.err = Nil)

\* C13 witness: a report whose size_bytes and schema are left out of the
\* document verified after being written and loaded back
C13_Witness ==
    /\ VerifiedWithMatchingKey /\ ~ret.tampered /\ ret.loaded /\ ret.ok
    /\ rpt.Schema = Nil /\ rpt.Metrics # Nil /\ rpt.Database.SizeBytes = 0

\* C14: Verify with the public key of the signing key returns false on a
\* signed report one of whose fields other than the signature was changed.
C14_TamperedReportFailsVerify ==
    (VerifiedWithMatchingKey /\ ret.tampered) => ~ret.ok

\* C14 witness: Verify returned false on a report whose check result was
\* changed after signing
C14_Witness ==
    /\ VerifiedWithMatchingKey /\ ret.tampered /\ ~ret.ok
    /\ rpt.Checks # ret.signed.Checks /\ rpt.Signature = ret.signed.Signature

\* the errors RunE returns before it reaches the checks
EarlyFailures ==
    {"failed to load configuration", "failed to create backup source",
     "failed to acquire backup", "failed to create decryptor", "decryption failed",
     "unsupported database type", "restore process failed",
     "failed to extract schema", "failed to extract metrics"}

\* the current invocation has a file in the report directory
RunReportWritten == \E n \in DOMAIN reportFiles : reportFiles[n].ID = runs

\* this step puts a signature on the report of the run
SignsReport ==
    /\ rpt # Nil /\ rpt' # Nil
    /\ rpt'.Signature # << >> /\ rpt'.Signature # rpt.Signature

\* C15: a step signs the report or writes a report file only when Restore has
\* succeeded, schema and metrics are extracted and the checks have run on
\* them; a run that failed before the checks has no report and no report file.
C15_ReportOnlyAfterChecks ==
    /\ [][(SignsReport \/ reportFiles' # reportFiles) =>
            /\ r.db # Nil /\ extractedSchema # Nil /\ metrics # Nil
            /\ Len(checkResults) > 0
            /\ checkResults = RunChecks(cfg, extractedSchema, baseline, metrics)]_vars
    /\ [](ErrMsg(err) \in EarlyFailures => (rpt = Nil /\ ~RunReportWritten))

\* C15 witness: a second run failed at metrics extraction; the first run's
\* report is on disk, none of the second
C15_Witness ==
    /\ pc = "exited" /\ runs = 2 /\ ErrMsg(err) = "failed to extract metrics"
    /\ (\E n \in DOMAIN reportFiles : reportFiles[n].ID = 1) /\ ~RunReportWritten

\* the Summary of report is the one computeSummary gives for its checks
SummaryMatchesChecks(report) == report.Summary = computeSummary(report).Summary

\* C16: the checks run only once schema and metrics are extracted; Sign gets
\* a report whose checks are the run's check results and whose Summary Build
\* computed from them, and changes neither; WriteJSON writes that report, so
\* the success flag on disk is the one of the checks on disk.
C16_SummaryComputedBeforeSign ==
    /\ [][(checkResults' # checkResults /\ checkResults' # << >>) =>
            (pc = "checks" /\ extractedSchema # Nil /\ metrics # Nil)]_vars
    /\ [][SignsReport =>
            /\ rpt.Checks = checkResults /\ SummaryMatchesChecks(rpt)
            /\ rpt'.Checks = rpt.Checks /\ rpt'.Summary = rpt.Summary]_vars
    /\ [][reportFiles' # reportFiles =>
            /\ rpt' = rpt /\ rpt.Signature # << >>
            /\ rpt.Checks = checkResults /\ SummaryMatchesChecks(rpt)
            /\ reportFiles'[ReportFileName(rpt)].Success
                  = ~HasCriticalFailure(rpt.Checks)]_vars

\* C16 witness: the report of a run with a failed critical check is written
C16_Witness ==
    /\ pc = "save_baseline" /\ ReportPersistedSigned
    /\ HasCriticalFailure(checkResults) /\ ~reportFiles[ReportFileName(rpt)].Success

\* C17: when a run is interrupted after its container was provisioned, the
\* container is terminated and the run has no report file.
C17_InterruptTearsDownAndDiscards ==
    (pc = "exited" /\ exitCode = InterruptExitCode /\ container # "none") =>
        (container = "terminated" /\ ~RunReportWritten)

\* the first result of RunChecks: tables_exist
TablesExistResult == checkResults[1]

\* the baseline tables no current table has the namespace and the name of
MissingByPair ==
    SelectSeq(baseline.Tables,
              LAMBDA t : ~\E i \in 1..Len(extractedSchema.Tables) :
                            /\ extractedSchema.Tables[i].Schema = t.Schema
                            /\ extractedSchema.Tables[i].Name = t.Name)

\* C18: tables_exist is critical; without a baseline it passes; with one it
\* passes exactly when every baseline table has a current table of the same
\* namespace and name, and when it fails its message lists the missing ones.
C18_TablesExistByPair ==
    pc = "chk_done" =>
        /\ TablesExistResult.Name = "tables_exist"
        /\ TablesExistResult.Level = LevelCritical
        /\ baseline = Nil => TablesExistResult.Passed
        /\ baseline # Nil =>
              /\ TablesExistResult.Passed <=> (MissingByPair = << >>)
              /\ ~TablesExistResult.Passed =>
                    TablesExistResult.Message[3]
                        = [i \in 1..Len(MissingByPair) |-> TableKey(MissingByPair[i])]

\* the second result of RunChecks: table_count
TableCountResult == checkResults[2]

\* C19: table_count is a warning-level check that passes without a baseline
\* and when the current schema has at least as many tables as the baseline,
\* and fails when it has fewer, its message giving the difference.
C19_TableCountFailsOnDecrease ==
    pc = "chk_done" =>
        /\ TableCountResult.Name = "table_count"
        /\ TableCountResult.Level = LevelWarning
        /\ TableCountResult.Passed <=>
              (baseline = Nil \/ Len(extractedSchema.Tables) >= Len(baseline.Tables))
        /\ ~TableCountResult.Passed =>
              -TableCountResult.Message[3]
                  = Len(baseline.Tables) - Len(extractedSchema.Tables)
        /\ extractedSchema = baseline => TableCountResult.Passed

\* C19 witness: the check failed on a schema with fewer tables than the baseline
C19_Witness ==
    /\ pc = "chk_done" /\ baseline # Nil
    /\ Len(extractedSchema.Tables) < Len(baseline.Tables)
    /\ ~TableCountResult.Passed

\* the fourth result of RunChecks when row counts are enabled: row_counts
RowCountResult == checkResults[4]

\* C20: with a baseline, when the total row count is more than
\* warn_threshold_percent below the total of the baseline run, row_counts
\* fails at level warning.
C20_RowCountDropWarns ==
    (pc = "chk_done" /\ cfg.RowCountsEnabled
       /\ baseline # Nil /\ metrics # Nil /\ ret.baselineRows > 0
       /\ (ret.baselineRows - SumRows(metrics.TableMetrics)) * 100
             > cfg.WarnThresholdPercent * ret.baselineRows) =>
        (RowCountResult.Name = "row_counts" /\ RowCountResult.Level = LevelWarning
           /\ ~RowCountResult.Passed)

\* the names of the schema checks
SchemaCheckNames == {"tables_exist", "table_count", "new_tables"}

\* C21: the schema checks are among the check results exactly when
\* verification.schema.enabled is true.
C21_SchemaChecksOnlyWhenEnabled ==
    pc = "chk_done" =>
        \A n \in SchemaCheckNames :
            (\E i \in 1..Len(checkResults) : checkResults[i].Name = n)
                <=> cfg.SchemaEnabled

\* C22: `report verify` exits with code 0 exactly when Verify found the
\* signature valid, and with code 1 when Verify found it invalid, when Verify
\* returned an error and when the public key could not be loaded.
C22_ReportVerifyExitCodes ==
    pc = "exited" =>
        /\ exitCode = 0 <=> (ret # Nil /\ ret.ok)
        /\ ((ret # Nil /\ ~ret.ok) \/ ErrMsg(err) = "failed to load public key") =>
              exitCode = 1

\* C23: a step of the pipeline leaves every report file that exists under its
\* name with its content, adds at most one file, and the directory it leaves
\* holds each report under a name that carries the report's timestamp and run
\* id, with one file per run id
C23_ReportWrittenOnceUniquely ==
    [][/\ \A n \in DOMAIN reportFiles :
              n \in DOMAIN reportFiles' /\ reportFiles'[n] = reportFiles[n]
       /\ Cardinality(DOMAIN reportFiles') <= Cardinality(DOMAIN reportFiles) + 1
       /\ \A n \in DOMAIN reportFiles' \ DOMAIN reportFiles :
              n = ReportFileName(rpt) /\ reportFiles'[n].ID = runs
       /\ \A n \in DOMAIN reportFiles' : n[2] = reportFiles'[n].ID
       /\ \A n, m \in DOMAIN reportFiles' :
              reportFiles'[n].ID = reportFiles'[m].ID => n = m]_vars

\* two runs of the same second both have their report in the directory
C23_Witness ==
    \E n, m \in DOMAIN reportFiles :
        n # m /\ n[1] = m[1] /\ reportFiles[n].ID # reportFiles[m].ID

C25_BaselineStoreContract ==
    /\ []((ret # Nil /\ ret.op = "Load" /\ ret.err = Nil) => ret.value = saved[ret.id])
    /\ [](\A id \in ProjectIDs :
             Exists(baselineFile, id) <=> Load(baselineFile, id, TRUE).schema # Nil)
    /\ [][\A id \in ProjectIDs :
             (ret' # Nil /\ ret'.op = "Save" /\ ret'.id # id)
                 => Load(baselineFile', id, TRUE) = Load(baselineFile, id, TRUE)]_vars

\* C26: the restore-duration check fails, at level warning, exactly when
\* there are metrics, the maximum is positive and the restore took longer
\* than the maximum; in every other case it passes at level info
C26_RestoreDurationWarnsWhenExceeded ==
    pc = "chk_duration" =>
        IF /\ metrics # Nil /\ ret.maxSeconds > 0
           /\ metrics.RestoreDuration > ret.maxSeconds * TicksPerSecond
        THEN ~ret.result.Passed /\ ret.result.Level = LevelWarning
        ELSE ret.result.Passed /\ ret.result.Level = LevelInfo

\* C27: while a run has no baseline none of its check results is a critical
\* failure, and the step after the report was written, in a run without
\* baseline, stores the extracted schema as the baseline and ends the run
\* without error, unless writing the baseline file itself fails
C27_FirstRunSavesBaseline ==
    /\ []((pc # "idle" /\ baseline = Nil) => CountFailures(checkResults).critical = 0)
    /\ [][(pc = "save_baseline" /\ baseline = Nil /\ pc' = "return"
            /\ ErrMsg(err') # "failed to save baseline schema")
              => /\ baselineFile' = extractedSchema
                 /\ saved'
                 /\ err' = Nil]_vars

\* a first run on a database without tables has stored its schema as baseline
C27_Witness ==
    /\ saved /\ baseline = Nil /\ extractedSchema # Nil
    /\ Len(extractedSchema.Tables) = 0
    /\ baselineFile = extractedSchema
    /\ \E n \in DOMAIN reportFiles : reportFiles[n].ID = runs /\ reportFiles[n].Signed

\* C28: psql is run only after pg_restore exited with a non-zero status; a
\* Restore that could not execute pg_restore returns that error without
\* running psql and leaves the restorer without restore duration and without
\* connection; and after a failed Restore every extraction call fails
C28_ExecErrorSkipsFallback ==
    /\ (ret # Nil /\ ret.op = "Restore" /\ ret.log.psqlRan)
          => (ret.log.pgRan /\ ret.log.pgExit # 0)
    /\ (ret # Nil /\ ret.op = "Restore"
         /\ ErrMsg(ret.err) = "failed to execute pg_restore")
          => (~ret.log.psqlRan /\ r.restoreDuration = 0 /\ r.db = Nil)
    /\ (ret # Nil /\ ret.op \in {"ExtractSchema", "ExtractMetrics"}
         /\ ret.phaseBefore = "restore_failed")
          => (ret.err # Nil /\ ret.value = Nil)

\* Restore has returned the error of executing pg_restore
C28_Witness ==
    /\ ret # Nil /\ ret.op = "Restore"
    /\ ErrMsg(ret.err) = "failed to execute pg_restore"
    /\ ret.log.pgRan /\ phase = "restore_failed"

\* C29 as stated: a built report to whose builder metrics were supplied
\* carries the metrics' database size, whatever the order of the calls
C29_SizeFromMetricsAnyOrder ==
    (pc = "bld_built" /\ Called("WithMetrics") /\ metrics # Nil)
        => rpt.Database.SizeBytes = metrics.DBSizeBytes

\* C29: a built report to whose builder metrics were supplied carries the
\* metrics' database size when WithDatabase was not called after WithMetrics,
\* and the size zero when it was
C29_SizeFromMetricsSuppliedLast ==
    (pc = "bld_built" /\ Called("WithMetrics") /\ metrics # Nil)
        => rpt.Database.SizeBytes =
               IF ret.order = <<"WithMetrics", "WithDatabase">>
               THEN 0 ELSE metrics.DBSizeBytes

\* the order of RunE: WithDatabase, then WithMetrics with a size, then Build
C29_Witness ==
    /\ pc = "bld_built" /\ ret.order = <<"WithDatabase", "WithMetrics">>
    /\ metrics # Nil /\ metrics.DBSizeBytes # 0
    /\ rpt.Database.SizeBytes = metrics.DBSizeBytes

\* the tables of a snapshot have pairwise distinct (namespace, name) pairs
DistinctIdentities(schema) ==
    \A i, j \in 1..Len(schema.Tables) :
        i # j => <<schema.Tables[i].Schema, schema.Tables[i].Name>>
                   # <<schema.Tables[j].Schema, schema.Tables[j].Name>>

\* C30: on a baseline and a current snapshot whose tables have pairwise
\* distinct identities, a failed table_count comes with a failed tables_exist
C30_TableCountFailureImpliesTablesExistFailure ==
    (/\ pc = "chk_done" /\ baseline # Nil
     /\ DistinctIdentities(baseline) /\ DistinctIdentities(extractedSchema)
     /\ ~TableCountResult.Passed)
        => ~TablesExistResult.Passed

====
